---- MODULE Spec2Model ----
(***************************************************************************)
(* Model of the HammerTech uploader (src/app.py): one run of the           *)
(* "Run Upload" button: form check, authentication, workbook loading, the  *)
(* per-row upload loop of the three upload types, and the summary.         *)
(***************************************************************************)
EXTENDS Integers, Sequences, FiniteSets

\* ------------------------------------------------------------------ bounds
MaxRows == 2
MaxStartRow == 2

\* ------------------------------------------------------------ cell values
\* A cell as openpyxl yields it with values_only=True: None, a str or an int.
None == [t |-> "none", s |-> "", n |-> 0]
S(x) == [t |-> "str", s |-> x, n |-> 0]
N(k) == [t |-> "num", s |-> "", n |-> k]

\* Python truthiness of a cell value (used by `x or ""` and by any([...])).
Truthy(c) == \/ (c.t = "str" /\ c.s # "")
             \/ (c.t = "num" /\ c.n # 0)

Digit(d) == CASE d = 0 -> "0" [] d = 1 -> "1" [] d = 2 -> "2" [] d = 3 -> "3"
              [] d = 4 -> "4" [] d = 5 -> "5" [] d = 6 -> "6" [] d = 7 -> "7"
              [] d = 8 -> "8" [] OTHER -> "9"

RECURSIVE Decimal(_)
Decimal(k) == IF k < 10 THEN Digit(k) ELSE Decimal(k \div 10) \o Digit(k % 10)

\* str(x) of a cell value.
PyStr(c) == CASE c.t = "none" -> "None"
              [] c.t = "str" -> c.s
              [] OTHER -> IF c.n < 0 THEN "-" \o Decimal(0 - c.n) ELSE Decimal(c.n)

\* `x or ""`
OrEmpty(c) == IF Truthy(c) THEN c ELSE S("")

StrOrEmpty_Uncoerced(c) == IF c.t # "none" THEN c ELSE S("")

\* `str(x) if x is not None else ""`
StrOrEmpty(c) == IF c.t # "none" THEN S(PyStr(c)) ELSE S("")

\* ------------------------------------------------------------- the inputs
UploadTypes == {"Users", "Projects", "Employer Profiles"}

\* Sheet contents: eight-column row patterns, cut to the sheet's width
\* (iter_rows yields every row of a sheet with the same number of cells).
Patterns ==
  { <<None, None, None, None, None, None, None, None>>,
    <<S(""), S(""), S(""), S(""), S(""), S(""), S(""), S("")>>,
    <<None, None, None, None, None, None, N(0), None>>,
    <<S("a@x.io"), S("Ann"), N(5551234), S("Eng"), N(42), N(17), S("CA"), N(8)>>,
    <<S("b@x.io"), None, None, None, None, None, None, None>>,
    <<S(""), S("Bob"), S("555"), None, N(0), None, None, None>> }

Widths == {5, 6, 7, 8}

Cut(p, w) == SubSeq(p, 1, w)

RECURSIVE SeqsUpTo(_, _)
SeqsUpTo(X, k) ==
  IF k = 0 THEN {<<>>}
  ELSE LET shorter == SeqsUpTo(X, k - 1)
       IN shorter \cup {Append(q, x) : q \in {r \in shorter : Len(r) = k - 1}, x \in X}

Sheets == UNION {{[k \in 1..Len(ps) |-> Cut(ps[k], w)] : ps \in SeqsUpTo(Patterns, MaxRows)}
                 : w \in Widths}

\* What the auth POST can come back with (requests.post / r.json()).
AuthOutcomes ==
  {[kind |-> "exc", status |-> 0, body |-> "none"]} \cup
  {[kind |-> "http", status |-> st, body |-> b] :
     st \in {200, 300, 401}, b \in {"token", "notoken", "notjson"}}

\* What one upload POST can come back with.
UploadOutcomes ==
  { [kind |-> "exc", status |-> 0, text |-> "timeout"],
    [kind |-> "http", status |-> 199, text |-> ""],
    [kind |-> "http", status |-> 200, text |-> "ok"],
    [kind |-> "http", status |-> 299, text |-> ""],
    [kind |-> "http", status |-> 300, text |-> ""],
    [kind |-> "http", status |-> 500, text |-> "server error"] }

NoResp == [kind |-> "none", status |-> 0, text |-> ""]
NoAuth == [kind |-> "none", status |-> 0, body |-> "none"]

VARIABLES pc, upload_type, start_row, authAttempts, authResp, token, wbLoaded,
          rows, i, row_count, success_count, fail_count, logs,
          sent, inflight, resp, answered, before, raised, failure

vars == <<pc, upload_type, start_row, authAttempts, authResp, token, wbLoaded,
          rows, i, row_count, success_count, fail_count, logs,
          sent, inflight, resp, answered, before, raised, failure>>


\* ------------------------------------------------------------ get_token
\* r.raise_for_status(): raises for a 4xx or a 5xx status only.
RaiseForStatus(st) == 400 <= st /\ st < 600

\* get_token returns data["token"] unless something on the way raises.
TokenReturned(o) == /\ o.kind = "http"
                    /\ ~RaiseForStatus(o.status)
                    /\ o.body = "token"

\* ---------------------------------------------------------- row mapping
\* The highest 0-based column the flow reads unconditionally, plus one.
ColumnsRead(ut) == CASE ut = "Users" -> 6
                     [] ut = "Projects" -> 7
                     [] OTHER -> 7

\* row[k] of a tuple raises IndexError when the row is shorter.
MappingRaises(ut, row) == Len(row) < ColumnsRead(ut)

EmployerInternalId(row) == IF Len(row) > 7 THEN row[8] ELSE None

UserSkip(row) == row[1].t = "none"

ProjectSkip(row) == ~ \E k \in 1..7 : Truthy(row[k])

EmployerSkip(row) == ~ (\/ \E k \in 1..7 : Truthy(row[k])
                        \/ Truthy(EmployerInternalId(row)))

SkipRow(ut, row) == CASE ut = "Users" -> UserSkip(row)
                      [] ut = "Projects" -> ProjectSkip(row)
                      [] OTHER -> EmployerSkip(row)

UserProjectIds(c) == IF c.t # "none" THEN <<c>> ELSE <<>>

UserPayload(row) ==
  [ name |-> OrEmpty(row[2]),
    title |-> OrEmpty(row[4]),
    mobile |-> StrOrEmpty(row[3]),
    email |-> OrEmpty(row[1]),
    internalIdentifier |-> StrOrEmpty(row[5]),
    roleNames |-> <<"safetymanager">>,
    userProjectIds |-> UserProjectIds(row[6]) ]

Day(d) == [dayOfWeek |-> d, startTime |-> "07:00:00", endTime |-> "17:00:00"]

SiteTiming == <<Day("Wednesday"), Day("Thursday"), Day("Friday"), Day("Saturday"),
                Day("Sunday"), Day("Monday"), Day("Tuesday")>>

ProjectPayload(row) ==
  [ isArchived |-> FALSE,
    name |-> row[1],
    siteAddress |-> row[3],
    regionId |-> row[7],
    state |-> row[5],
    timeZoneString |-> row[4],
    country |-> row[2],
    internalIdentifier |-> row[6],
    siteTiming |-> SiteTiming ]

EmployerPayload(row) ==
  [ businessName |-> OrEmpty(row[1]),
    abn |-> StrOrEmpty(row[2]),
    addresses |-> << [ addressType |-> "Physical",
                       streetAddress |-> OrEmpty(row[3]),
                       suburb |-> OrEmpty(row[4]),
                       state |-> OrEmpty(row[5]),
                       postCode |-> OrEmpty(StrOrEmpty(row[6])),
                       country |-> OrEmpty(row[7]) ] >>,
    internalIdentifier |-> StrOrEmpty(EmployerInternalId(row)) ]

Payload(ut, row) == CASE ut = "Users" -> UserPayload(row)
                      [] ut = "Projects" -> ProjectPayload(row)
                      [] OTHER -> EmployerPayload(row)

\* The cell the "Sending ..." log line names: name, ProjectName, business_name.
Subject(ut, row) == IF ut = "Users" THEN row[2] ELSE row[1]

\* post_to_api picks the endpoint from the upload type.
Endpoint(ut) == CASE ut = "Users" -> "workerprofiles"
                  [] ut = "Projects" -> "projects"
                  [] OTHER -> "EmployerProfiles"

\* ------------------------------------------------------------ the log
SendingEntry(k, ut, row) ==
  [row |-> k, kind |-> "Sending", status |-> 0, text |-> PyStr(Subject(ut, row))]

Is2xx_Through300(st) == 200 <= st /\ st <= 300

Is2xx(st) == 200 <= st /\ st < 300

OutcomeEntry(k, o) ==
  IF o.kind = "exc" THEN [row |-> k, kind |-> "Error", status |-> 0, text |-> o.text]
  ELSE IF Is2xx(o.status)
       THEN [row |-> k, kind |-> "Success", status |-> o.status, text |-> ""]
       ELSE [row |-> k, kind |-> "Failed", status |-> o.status, text |-> o.text]

AppendOutcome_ErrorsUnlogged(lg, k, o) ==
  IF o.kind = "exc" THEN lg ELSE Append(lg, OutcomeEntry(k, o))

AppendOutcome(lg, k, o) == Append(lg, OutcomeEntry(k, o))

SuccessAfter(sc, o) == IF o.kind = "http" /\ Is2xx(o.status) THEN sc + 1 ELSE sc

FailAfter_ExceptionUncounted(fc, o) ==
  IF o.kind = "http" /\ ~Is2xx(o.status) THEN fc + 1 ELSE fc

FailAfter(fc, o) == IF o.kind = "http" /\ Is2xx(o.status) THEN fc ELSE fc + 1

NextIndex_Stuck(k) == k

\* The loop variable of enumerate(rows, start=1) after one iteration.
NextIndex(k) == k + 1

\* ------------------------------------------------------------------ Init
Init ==
  /\ pc = "Idle"
  /\ upload_type \in UploadTypes
  /\ start_row \in 1..MaxStartRow
  /\ authAttempts = 0
  /\ authResp = NoAuth
  /\ token = FALSE
  /\ wbLoaded = FALSE
  /\ rows = <<>>
  /\ i = 0
  /\ row_count = 0
  /\ success_count = 0
  /\ fail_count = 0
  /\ logs = <<>>
  /\ sent = <<>>
  /\ inflight = {}
  /\ resp = NoResp
  /\ answered = 0
  /\ before = [row_count |-> 0, success_count |-> 0, fail_count |-> 0, logs |-> 0]
  /\ raised = {}
  /\ failure = "none"

\* --------------------------------------------------------------- actions
\* `if run_button:` with a field left empty: st.error, nothing else runs.
RunIncomplete ==
  /\ pc = "Idle"
  /\ pc' = "Rejected"
  /\ UNCHANGED <<upload_type, start_row, authAttempts, authResp, token, wbLoaded,
                 rows, i, row_count, success_count, fail_count, logs,
                 sent, inflight, resp, answered, before, raised, failure>>

\* `if run_button:` with every field filled: the auth POST goes out.
RunUpload ==
  /\ pc = "Idle"
  /\ pc' = "Authenticating"
  /\ authAttempts' = authAttempts + 1
  /\ UNCHANGED <<upload_type, start_row, authResp, token, wbLoaded,
                 rows, i, row_count, success_count, fail_count, logs,
                 sent, inflight, resp, answered, before, raised, failure>>

\* get_token returns the token.
AuthSucceeds ==
  /\ pc = "Authenticating"
  /\ \E o \in AuthOutcomes :
       /\ TokenReturned(o)
       /\ authResp' = o
  /\ token' = TRUE
  /\ pc' = "Loading"
  /\ UNCHANGED <<upload_type, start_row, authAttempts, wbLoaded,
                 rows, i, row_count, success_count, fail_count, logs,
                 sent, inflight, resp, answered, before, raised, failure>>

\* get_token raises: st.error, st.stop().
AuthFails ==
  /\ pc = "Authenticating"
  /\ \E o \in AuthOutcomes :
       /\ ~TokenReturned(o)
       /\ authResp' = o
  /\ pc' = "Failed"
  /\ failure' = "AuthError"
  /\ UNCHANGED <<upload_type, start_row, authAttempts, token, wbLoaded,
                 rows, i, row_count, success_count, fail_count, logs,
                 sent, inflight, resp, answered, before, raised>>

\* load_workbook raises, or the sheet name is not in wb.sheetnames.
LoadFails ==
  /\ pc = "Loading"
  /\ pc' = "Failed"
  /\ failure' = "WorkbookError"
  /\ UNCHANGED <<upload_type, start_row, authAttempts, authResp, token, wbLoaded,
                 rows, i, row_count, success_count, fail_count, logs,
                 sent, inflight, resp, answered, before, raised>>

\* The workbook loads, rows = list(sheet.iter_rows(...)), counters start at 0.
LoadWorkbook ==
  /\ pc = "Loading"
  /\ \E sheet \in Sheets : rows' = sheet
  /\ wbLoaded' = TRUE
  /\ i' = 1
  /\ row_count' = 0
  /\ success_count' = 0
  /\ fail_count' = 0
  /\ logs' = <<>>
  /\ pc' = "Iterating"
  /\ UNCHANGED <<upload_type, start_row, authAttempts, authResp, token,
                 sent, inflight, resp, answered, before, raised, failure>>

\* `if i < start_row: continue`
SkipBeforeStart ==
  /\ pc = "Iterating"
  /\ i <= Len(rows)
  /\ i < start_row
  /\ i' = NextIndex(i)
  /\ UNCHANGED <<pc, upload_type, start_row, authAttempts, authResp, token, wbLoaded,
                 rows, row_count, success_count, fail_count, logs,
                 sent, inflight, resp, answered, before, raised, failure>>

\* Reading the row's columns raises IndexError outside any try: the script dies.
MapRowRaises ==
  /\ pc = "Iterating"
  /\ i <= Len(rows)
  /\ i >= start_row
  /\ MappingRaises(upload_type, rows[i])
  /\ raised' = raised \cup {i}
  /\ pc' = "Failed"
  /\ failure' = "Uncaught"
  /\ UNCHANGED <<upload_type, start_row, authAttempts, authResp, token, wbLoaded,
                 rows, i, row_count, success_count, fail_count, logs,
                 sent, inflight, resp, answered, before>>

\* The skip rule holds: `continue`.
SkipBlank ==
  /\ pc = "Iterating"
  /\ i <= Len(rows)
  /\ i >= start_row
  /\ ~MappingRaises(upload_type, rows[i])
  /\ SkipRow(upload_type, rows[i])
  /\ i' = NextIndex(i)
  /\ UNCHANGED <<pc, upload_type, start_row, authAttempts, authResp, token, wbLoaded,
                 rows, row_count, success_count, fail_count, logs,
                 sent, inflight, resp, answered, before, raised, failure>>

\* The payload is built, the row counted and logged, and post_to_api called.
SendRow ==
  /\ pc = "Iterating"
  /\ i <= Len(rows)
  /\ i >= start_row
  /\ ~MappingRaises(upload_type, rows[i])
  /\ ~SkipRow(upload_type, rows[i])
  /\ before' = [row_count |-> row_count, success_count |-> success_count,
                fail_count |-> fail_count, logs |-> Len(logs)]
  /\ row_count' = row_count + 1
  /\ logs' = Append(logs, SendingEntry(i, upload_type, rows[i]))
  /\ sent' = Append(sent, [row |-> i, endpoint |-> Endpoint(upload_type),
                           payload |-> Payload(upload_type, rows[i])])
  /\ inflight' = inflight \cup {i}
  /\ pc' = "Uploading"
  /\ UNCHANGED <<upload_type, start_row, authAttempts, authResp, token, wbLoaded,
                 rows, i, success_count, fail_count, resp, answered, raised, failure>>

\* requests.post returns or raises; the outcome is classified, logged, counted.
Response ==
  /\ pc = "Uploading"
  /\ \E o \in UploadOutcomes :
       /\ resp' = o
       /\ answered' = i
       /\ logs' = AppendOutcome(logs, i, o)
       /\ success_count' = SuccessAfter(success_count, o)
       /\ fail_count' = FailAfter(fail_count, o)
       /\ raised' = IF o.kind = "exc" THEN raised \cup {i} ELSE raised
  /\ inflight' = inflight \ {i}
  /\ i' = NextIndex(i)
  /\ pc' = "Iterating"
  /\ UNCHANGED <<upload_type, start_row, authAttempts, authResp, token, wbLoaded,
                 rows, row_count, sent, before, failure>>

\* The loop is exhausted: the summary and the full log are shown.
Summary ==
  /\ pc = "Iterating"
  /\ i > Len(rows)
  /\ pc' = "Completed"
  /\ UNCHANGED <<upload_type, start_row, authAttempts, authResp, token, wbLoaded,
                 rows, i, row_count, success_count, fail_count, logs,
                 sent, inflight, resp, answered, before, raised, failure>>

Next ==
  \/ RunIncomplete
  \/ RunUpload
  \/ AuthSucceeds
  \/ AuthFails
  \/ LoadFails
  \/ LoadWorkbook
  \/ SkipBeforeStart
  \/ MapRowRaises
  \/ SkipBlank
  \/ SendRow
  \/ Response
  \/ Summary

Spec == Init /\ [][Next]_vars


\* ================================================================ claims
OutcomeKinds == {"Success", "Failed", "Error"}

LogIndices(kinds) == {j \in 1..Len(logs) : logs[j].kind \in kinds}

\* The cell of a 1-based column, absent when the row is shorter.
CellAt(row, k) == IF k <= Len(row) THEN row[k] ELSE None

AbsentOrEmpty(c) == c.t = "none" \/ (c.t = "str" /\ c.s = "")

\* The skip rule as the specification words it.
BlankRow(ut, row) ==
  CASE ut = "Users" -> AbsentOrEmpty(CellAt(row, 1))
    [] ut = "Projects" -> \A k \in 1..7 : AbsentOrEmpty(CellAt(row, k))
    [] OTHER -> \A k \in 1..8 : AbsentOrEmpty(CellAt(row, k))

RequestsFor(k) == {j \in 1..Len(sent) : sent[j].row = k}

\* C1: when the run reaches completion, succeeded + failed equals
\* rowsProcessed, whatever the upload type, the rows and the upload outcomes.
C1_CountsAddUp ==
  pc = "Completed" => success_count + fail_count = row_count

C1_Witness ==
  /\ pc = "Completed"
  /\ success_count >= 1
  /\ fail_count >= 1
  /\ \E j \in 1..Len(logs) : logs[j].kind = "Error"

\* C2: an exception raised while a row is handled, by the mapping step or by
\* the upload call, is caught, logged and counted as exactly one failure of
\* that row, and the run goes on with the rows after it.
C2_RowExceptionRecovered ==
  \A k \in raised :
    /\ pc \in {"Iterating", "Uploading", "Completed"}
    /\ Cardinality({j \in 1..Len(logs) : logs[j].row = k /\ logs[j].kind = "Error"}) = 1
    /\ fail_count >= 1

\* C3: a row at or after the start index that meets its upload type's skip
\* rule (Users: email absent or empty; Projects: all seven cells absent or
\* empty; Employer Profiles: all eight) gets no payload, no request, no
\* count and no log entry.
C3_BlankRowsUntouched ==
  \A k \in 1..Len(rows) :
    (k >= start_row /\ BlankRow(upload_type, rows[k])) =>
      /\ RequestsFor(k) = {}
      /\ \A j \in 1..Len(logs) : logs[j].row # k

\* C4: in a completed run every non-blank row at or after the start index
\* caused exactly one upload request, every row before it none, and the
\* number of requests equals rowsProcessed.
C4_OneRequestPerRow ==
  pc = "Completed" =>
    /\ Len(sent) = row_count
    /\ \A k \in 1..Len(rows) :
         /\ k < start_row => RequestsFor(k) = {}
         /\ (k >= start_row /\ ~BlankRow(upload_type, rows[k])) =>
              Cardinality(RequestsFor(k)) = 1

\* C5: when authentication fails (the call raises, the status is not 2xx, or
\* the body carries no token) the run stops at once: no workbook, no row, no
\* request, all counters 0; and authentication is attempted once per run.
C5_AuthFailureStops ==
  /\ authAttempts <= 1
  /\ (authResp.kind # "none" /\ ~(/\ authResp.kind = "http"
                                  /\ authResp.status \in 200..299
                                  /\ authResp.body = "token")) =>
       /\ pc = "Failed"
       /\ ~wbLoaded
       /\ rows = <<>>
       /\ sent = <<>>
       /\ row_count = 0 /\ success_count = 0 /\ fail_count = 0

\* C6: a loading failure ends the run with no row processed and no request
\* sent, and the run fails only from the authenticating and loading steps,
\* never from the row iteration.
C6_FailedOnlyBeforeLoop ==
  pc = "Failed" =>
    /\ ~wbLoaded
    /\ i = 0
    /\ sent = <<>>
    /\ row_count = 0

\* C7: once the request of a row has been answered with an HTTP status, a
\* status outside 200..299 has raised failed by 1 and rowsProcessed by 1, left
\* succeeded alone and appended a failure entry with the status and the body,
\* and the loop has gone on; a status in 200..299 has raised succeeded by 1
\* and left failed alone.
C7_Classification ==
  (/\ resp.kind = "http"
   /\ inflight = {}
   /\ sent # <<>>) =>
     /\ answered = sent[Len(sent)].row
     /\ pc \in {"Iterating", "Completed"}
     /\ i > answered
     /\ row_count = before.row_count + 1
     /\ Len(logs) = before.logs + 2
     /\ IF resp.status \in 200..299
        THEN /\ success_count = before.success_count + 1
             /\ fail_count = before.fail_count
        ELSE /\ fail_count = before.fail_count + 1
             /\ success_count = before.success_count
             /\ logs[Len(logs)] = [row |-> answered, kind |-> "Failed",
                                   status |-> resp.status, text |-> resp.text]

C7_Witness ==
  /\ resp = [kind |-> "http", status |-> 500, text |-> "server error"]
  /\ inflight = {}
  /\ pc = "Iterating"
  /\ fail_count = 1
  /\ success_count = 1

\* C8: uploads are strictly sequential in file order: at most one request is
\* outstanding, it is the latest one, and requests go out in increasing row
\* index.
C8_Sequential ==
  /\ Cardinality(inflight) <= 1
  /\ \A k \in inflight : sent # <<>> /\ k = sent[Len(sent)].row
  /\ \A a, b \in 1..Len(sent) : a < b => sent[a].row < sent[b].row
  /\ pc = "Uploading" <=> inflight # {}

C8_Witness ==
  /\ Len(sent) = 2
  /\ pc = "Uploading"
  /\ answered = sent[1].row

TextCell(c) == c.t = "str" /\ c.s # ""

\* C9: the payload of a user row with an email has exactly the seven user
\* fields; name, title, mobile and internalIdentifier are "" when their cell
\* is absent; a numeric phone or identifier becomes its decimal string
\* (5551234 gives "5551234"); roleNames is ["safetymanager"]; userProjectIds
\* is [projectId] when that cell is present and [] otherwise; equal rows give
\* equal payloads.
C9_UserPayload ==
  upload_type = "Users" =>
    /\ \A j \in 1..Len(sent) :
         LET r == rows[sent[j].row]
             p == sent[j].payload
         IN /\ r[1].t # "none"
            /\ DOMAIN p = {"name", "title", "mobile", "email", "internalIdentifier",
                           "roleNames", "userProjectIds"}
            /\ (r[2].t = "none" => p.name = S(""))
            /\ (TextCell(r[2]) => p.name = r[2])
            /\ (r[4].t = "none" => p.title = S(""))
            /\ (TextCell(r[4]) => p.title = r[4])
            /\ (r[3].t = "none" => p.mobile = S(""))
            /\ (r[3].t = "str" => p.mobile = r[3])
            /\ (r[3] = N(5551234) => p.mobile = S("5551234"))
            /\ (r[5].t = "none" => p.internalIdentifier = S(""))
            /\ (r[5] = N(42) => p.internalIdentifier = S("42"))
            /\ (r[5] = N(0) => p.internalIdentifier = S("0"))
            /\ p.mobile.t = "str"
            /\ p.internalIdentifier.t = "str"
            /\ (TextCell(r[1]) => p.email = r[1])
            /\ p.roleNames = <<"safetymanager">>
            /\ p.userProjectIds = IF r[6].t = "none" THEN <<>> ELSE <<r[6]>>
    /\ \A a, b \in 1..Len(sent) :
         rows[sent[a].row] = rows[sent[b].row] => sent[a].payload = sent[b].payload

C9_Witness ==
  /\ upload_type = "Users"
  /\ Len(sent) = 2
  /\ rows[sent[1].row][3] = N(5551234)
  /\ rows[sent[1].row][6] = N(17)
  /\ rows[sent[2].row][3] = None
  /\ rows[sent[2].row][6] = None

\* C10: at completion the log is, row by row in file order, the row's
\* "Sending" entry followed by its one outcome entry: 2 * rowsProcessed
\* entries, as many success entries as succeeded and as many failure entries
\* as failed.
C10_LogShape ==
  pc = "Completed" =>
    /\ Len(logs) = 2 * row_count
    /\ Len(sent) = row_count
    /\ \A j \in 1..row_count :
         /\ logs[2 * j - 1].kind = "Sending"
         /\ logs[2 * j].kind \in OutcomeKinds
         /\ logs[2 * j - 1].row = sent[j].row
         /\ logs[2 * j].row = sent[j].row
    /\ \A j \in 1..(row_count - 1) : logs[2 * j].row < logs[2 * j + 1].row
    /\ Cardinality(LogIndices({"Success"})) = success_count
    /\ Cardinality(LogIndices({"Failed", "Error"})) = fail_count

C10_Witness ==
  /\ pc = "Completed"
  /\ row_count = 2
  /\ Cardinality(LogIndices({"Success"})) = 1
  /\ Cardinality(LogIndices({"Error"})) = 1

====
